---- MODULE Spec2Model ----
(***************************************************************************)
(* A model of lib/resolution-independence.js, the Less plugin that turns   *)
(* lengths written in a fixed unit (px) into a resolution-independent unit *)
(* (rem).                                                                  *)
(*                                                                         *)
(* JavaScript values are tagged records: the field t holds what typeof /   *)
(* Array.isArray tell the code.  A string is a sequence of one-character   *)
(* strings, so that slice, split, the token regular expression, parseFloat *)
(* and number formatting are computed character by character.  A number    *)
(* is an exact fraction n/d in lowest terms, or NaN, or +-Infinity.  The   *)
(* model computes with exact fractions where the program computes with     *)
(* IEEE doubles, has no negative zero, and no exponent notation (the       *)
(* bounds keep every printed number within the range JavaScript prints in  *)
(* plain decimal notation).                                                *)
(***************************************************************************)
EXTENDS Integers, Sequences, FiniteSets, TLC

VARIABLES
    self,       \* the plugin object: its seven parameters, _minScaleFactor, _currentPropName
    supplied,   \* history: per parameter, the value of the most recent configure call that gave it
    node,       \* the declaration node the host has parsed and hands to visitDeclaration
    orig,       \* history: that declaration as the host parsed it
    once,       \* history: that declaration after the first visitDeclaration
    visits,     \* history: how many times visitDeclaration has run on the declaration
    arg,        \* the arguments of a direct call of one conversion function
    ret         \* what that call returned

vars == <<self, supplied, node, orig, once, visits, arg, ret>>

----------------------------------------------------------------------------
(* Bounds of the model.                                                    *)

\* Input magnitudes are m / 10^k for m in -MaxN..MaxN and k in {0, 1}.
MaxN == 30
\* Raw strings are all the strings over Alphabet of up to MaxLen characters.
MaxLen == 4
\* visitDeclaration runs at most MaxVisits times on one declaration.
MaxVisits == 2

----------------------------------------------------------------------------
(* JavaScript values.                                                      *)

Undefined == [t |-> "undefined"]
False == [t |-> "boolean", b |-> FALSE]
Str(s) == [t |-> "string", s |-> s]
Arr(a) == [t |-> "array", a |-> a]

Abs(i) == IF i < 0 THEN -i ELSE i
Sgn(i) == IF i < 0 THEN -1 ELSE IF i > 0 THEN 1 ELSE 0

RECURSIVE GCD(_, _)
GCD(a, b) == IF b = 0 THEN a ELSE GCD(b, a % b)

RECURSIVE Pow10(_)
Pow10(k) == IF k = 0 THEN 1 ELSE 10 * Pow10(k - 1)

\* The finite number n/d (d > 0), in lowest terms.
Rat(n, d) ==
    LET g == GCD(Abs(n), d)
    IN  [t |-> "number", k |-> "fin", n |-> Sgn(n) * (Abs(n) \div g), d |-> d \div g]
Num(i) == Rat(i, 1)
Dec(m, k) == Rat(m, Pow10(k))
NaN == [t |-> "number", k |-> "nan", n |-> 0, d |-> 1]
Infinity(sign) == [t |-> "number", k |-> "inf", n |-> sign, d |-> 1]

IsFinite(x) == x.t = "number" /\ x.k = "fin"
IsZero(x) == x.t = "number" /\ x.k = "fin" /\ x.n = 0

\* ToBoolean
Truthy(x) ==
    CASE x.t = "undefined" -> FALSE
      [] x.t = "boolean" -> x.b
      [] x.t = "number" -> x.k = "inf" \/ (x.k = "fin" /\ x.n # 0)
      [] x.t = "string" -> Len(x.s) > 0
      [] OTHER -> TRUE

\* x * y on numbers
Times(x, y) ==
    CASE x.k = "nan" \/ y.k = "nan" -> NaN
      [] x.k = "inf" \/ y.k = "inf" ->
            IF Sgn(x.n) * Sgn(y.n) = 0 THEN NaN ELSE Infinity(Sgn(x.n) * Sgn(y.n))
      [] OTHER -> Rat(x.n * y.n, x.d * y.d)

\* x / y on numbers
Over(x, y) ==
    CASE x.k = "nan" \/ y.k = "nan" -> NaN
      [] x.k = "inf" /\ y.k = "inf" -> NaN
      [] x.k = "inf" -> Infinity(IF y.n < 0 THEN -x.n ELSE x.n)
      [] y.k = "inf" -> Num(0)
      [] y.n = 0 -> IF x.n = 0 THEN NaN ELSE Infinity(Sgn(x.n))
      [] OTHER -> Rat(Sgn(y.n) * x.n * y.d, x.d * Abs(y.n))

\* Math.abs
MathAbs(x) ==
    CASE x.k = "nan" -> NaN
      [] x.k = "inf" -> Infinity(1)
      [] OTHER -> [x EXCEPT !.n = Abs(x.n)]

\* x < y and x <= y on numbers (false when either is NaN)
Lt(x, y) ==
    CASE x.k = "nan" \/ y.k = "nan" -> FALSE
      [] x.k = "inf" /\ y.k = "inf" -> x.n < y.n
      [] x.k = "inf" -> x.n < 0
      [] y.k = "inf" -> y.n > 0
      [] OTHER -> x.n * y.d < y.n * x.d
Le(x, y) ==
    CASE x.k = "nan" \/ y.k = "nan" -> FALSE
      [] OTHER -> Lt(x, y) \/ x = y

----------------------------------------------------------------------------
(* Strings: Number::toString, Number.prototype.toFixed, parseFloat.        *)

Digits == <<"0", "1", "2", "3", "4", "5", "6", "7", "8", "9">>
IsDigit(c) == \E i \in 1..10 : Digits[i] = c
DigitVal(c) == (CHOOSE i \in 1..10 : Digits[i] = c) - 1
IsSpace(c) == c = " "

RECURSIVE NatToStr(_)
NatToStr(i) ==
    IF i < 10 THEN <<Digits[i + 1]>> ELSE NatToStr(i \div 10) \o <<Digits[(i % 10) + 1]>>

RECURSIVE Zeros(_)
Zeros(k) == IF k <= 0 THEN <<>> ELSE <<"0">> \o Zeros(k - 1)

\* The digits of m / 10^k (m >= 0) with exactly k fractional digits.
FixedDigits(m, k) ==
    LET ip == m \div Pow10(k)
        fp == NatToStr(m % Pow10(k))
    IN  IF k = 0 THEN NatToStr(ip)
        ELSE NatToStr(ip) \o <<".">> \o Zeros(k - Len(fp)) \o fp

\* The least k with d dividing 10^k (d is a product of 2s and 5s).
RECURSIVE DecimalPlaces(_, _)
DecimalPlaces(d, k) == IF Pow10(k) % d = 0 THEN k ELSE DecimalPlaces(d, k + 1)

\* String(x) for a number x that has a finite decimal expansion.
NumberToString(x) ==
    CASE x.k = "nan" -> <<"N", "a", "N">>
      [] x.k = "inf" -> (IF x.n < 0 THEN <<"-">> ELSE <<>>)
                            \o <<"I", "n", "f", "i", "n", "i", "t", "y">>
      [] OTHER ->
            LET k == DecimalPlaces(x.d, 0)
                m == Abs(x.n) * (Pow10(k) \div x.d)
            IN  (IF x.n < 0 THEN <<"-">> ELSE <<>>) \o FixedDigits(m, k)

\* x.toFixed(p): the nearest multiple of 10^-p, ties away from zero, printed
\* with exactly p fractional digits; the sign is that of x, also when the
\* digits are all zero.
toFixed(x, p) ==
    CASE x.k # "fin" -> NumberToString(x)
      [] OTHER ->
            LET g == GCD(Pow10(p), x.d)
                num == Abs(x.n) * (Pow10(p) \div g)
                den == x.d \div g
                m == (2 * num + den) \div (2 * den)
            IN  (IF x.n < 0 THEN <<"-">> ELSE <<>>) \o FixedDigits(m, p)

\* The longest prefix of s made of characters satisfying the digit test.
RECURSIVE DigitRun(_, _)
DigitRun(s, i) == IF i <= Len(s) /\ IsDigit(s[i]) THEN 1 + DigitRun(s, i + 1) ELSE 0

RECURSIVE DigitsToNat(_, _, _)
DigitsToNat(s, i, len) ==
    IF len = 0 THEN 0 ELSE 10 * DigitsToNat(s, i, len - 1) + DigitVal(s[i + len - 1])

RECURSIVE SkipSpaces(_, _)
SkipSpaces(s, i) == IF i <= Len(s) /\ IsSpace(s[i]) THEN SkipSpaces(s, i + 1) ELSE i

StartsWithAt(s, i, w) ==
    /\ i + Len(w) - 1 <= Len(s)
    /\ \A j \in 1..Len(w) : s[i + j - 1] = w[j]

\* parseFloat of a string: leading white space, a sign, then "Infinity" or
\* the longest decimal literal (digits, digits.digits, digits., .digits);
\* NaN when there is none.
parseFloatStr(s) ==
    LET i0 == SkipSpaces(s, 1)
        neg == i0 <= Len(s) /\ s[i0] = "-"
        i1 == IF i0 <= Len(s) /\ s[i0] \in {"+", "-"} THEN i0 + 1 ELSE i0
        a == DigitRun(s, i1)
        dot == i1 + a <= Len(s) /\ s[i1 + a] = "."
        b == IF dot THEN DigitRun(s, i1 + a + 1) ELSE 0
        mag == DigitsToNat(s, i1, a) * Pow10(b) + DigitsToNat(s, i1 + a + 1, b)
    IN  CASE StartsWithAt(s, i1, <<"I", "n", "f", "i", "n", "i", "t", "y">>) ->
                Infinity(IF neg THEN -1 ELSE 1)
          [] a = 0 /\ b = 0 -> NaN
          [] OTHER -> Rat(IF neg THEN -mag ELSE mag, Pow10(b))

\* value.toString() for the values the traversal meets.  An array of tree
\* nodes prints as "[object Object],..." and undefined has no toString; the
\* code only calls it on a truthy value.
JSToString(x) ==
    CASE x.t = "string" -> x.s
      [] x.t = "number" -> NumberToString(x)
      [] x.t = "array" -> IF Len(x.a) = 0 THEN <<>> ELSE <<"[", "o", "b", "j", "]">>
      [] OTHER -> <<"[", "o", "b", "j", "]">>

\* parseFloat(value)
parseFloat(x) == parseFloatStr(JSToString(x))

\* str.slice(-k)
SliceLast(s, k) ==
    IF k = 0 THEN s
    ELSE IF k >= Len(s) THEN s
    ELSE SubSeq(s, Len(s) - k + 1, Len(s))

\* x + y where y is a string: string concatenation of JSToString(x) and y
Concat(x, y) ==
    (IF x.t = "undefined" THEN <<"u", "n", "d", "e", "f", "i", "n", "e", "d">> ELSE JSToString(x)) \o y

----------------------------------------------------------------------------
(* The plugin object and configure.                                        *)

PX == <<"p", "x">>
REM == <<"r", "e", "m">>
APX == <<"a", "p", "x">>

OptionNames ==
    {"baseSize", "riUnit", "unit", "absoluteUnit", "minUnitSize", "minSize", "precision"}

\* ResolutionIndependencePlugin.prototype: the defaults an instance inherits.
Prototype ==
    [baseSize |-> Num(24), riUnit |-> Str(REM), unit |-> Str(PX),
     absoluteUnit |-> Str(APX), minUnitSize |-> Num(1), minSize |-> Num(16),
     precision |-> Num(5), minScaleFactor |-> Undefined, currentPropName |-> Undefined]

\* (opts && opts.f !== undefined) ? opts.f : this._f
Option(this, opts, f) == IF Truthy(opts) /\ opts[f] # Undefined THEN opts[f] ELSE this[f]

\* A configure that forgets to recompute _minScaleFactor.
configureStale(this, opts) ==
    [f \in DOMAIN this |-> IF f \in OptionNames THEN Option(this, opts, f) ELSE this[f]]

configure(this, opts) ==
    LET set == [f \in DOMAIN this |->
                    IF f \in OptionNames THEN Option(this, opts, f) ELSE this[f]]
    IN  [set EXCEPT !.minScaleFactor = Over(set.minSize, set.baseSize)]

\* new ResolutionIndependencePlugin(opts)
construct(opts) == configure(Prototype, opts)

----------------------------------------------------------------------------
(* The conversion functions.                                               *)

convertValue(this, value) ==
    parseFloatStr(toFixed(Over(value, this.baseSize), this.precision.n))

\* (unitNode && unitNode.numerator && unitNode.numerator.length &&
\*  unitNode.numerator[0]) || unitNode.backupUnit
unitOf(unitNode) ==
    IF Len(unitNode.numerator) > 0 /\ Truthy(unitNode.numerator[1])
    THEN unitNode.numerator[1]
    ELSE unitNode.backupUnit

\* value < 0 ? -1 : 1
signOf(value) == Num(IF Lt(value, Num(0)) THEN -1 ELSE 1)

\* A parseValueObject whose clamp drops the sign of the value.
parseValueObjectUnsigned(this, value, unitNode) ==
    LET unit == unitOf(unitNode)
        scaledValue == MathAbs(Times(value, this.minScaleFactor))
    IN  IF unit = this.unit
        THEN IF Truthy(scaledValue) /\ Le(scaledValue, this.minUnitSize)
             THEN [value |-> IF Lt(MathAbs(value), this.minUnitSize)
                             THEN value
                             ELSE this.minUnitSize,
                   unit |-> this.unit]
             ELSE [value |-> convertValue(this, value), unit |-> this.riUnit]
        ELSE IF unit = this.absoluteUnit
             THEN [value |-> value, unit |-> this.unit]
             ELSE [value |-> value, unit |-> unit]

\* A parseValueObject that also converts values already in the
\* resolution-independent unit.
parseValueObjectRescales(this, value, unitNode) ==
    LET unit == unitOf(unitNode)
        scaledValue == MathAbs(Times(value, this.minScaleFactor))
    IN  IF unit = this.unit \/ unit = this.riUnit
        THEN IF Truthy(scaledValue) /\ Le(scaledValue, this.minUnitSize)
             THEN [value |-> IF Lt(MathAbs(value), this.minUnitSize)
                             THEN value
                             ELSE Times(this.minUnitSize, signOf(value)),
                   unit |-> this.unit]
             ELSE [value |-> convertValue(this, value), unit |-> this.riUnit]
        ELSE IF unit = this.absoluteUnit
             THEN [value |-> value, unit |-> this.unit]
             ELSE [value |-> value, unit |-> unit]

parseValueObject(this, value, unitNode) ==
    LET unit == unitOf(unitNode)
        scaledValue == MathAbs(Times(value, this.minScaleFactor))
    IN  IF unit = this.unit
        THEN IF Truthy(scaledValue) /\ Le(scaledValue, this.minUnitSize)
             THEN [value |-> IF Lt(MathAbs(value), this.minUnitSize)
                             THEN value
                             ELSE Times(this.minUnitSize, signOf(value)),
                   unit |-> this.unit]
             ELSE [value |-> convertValue(this, value), unit |-> this.riUnit]
        ELSE IF unit = this.absoluteUnit
             THEN [value |-> value, unit |-> this.unit]
             ELSE [value |-> value, unit |-> unit]

\* value && value.toString().slice(-1 * u.length) == u
endsWith(value, u) == Truthy(value) /\ SliceLast(JSToString(value), Len(u.s)) = u.s

parseValueString(this, value) ==
    IF endsWith(value, this.absoluteUnit)
    THEN Str(Concat(parseFloat(value), this.unit.s))
    ELSE IF endsWith(value, this.unit)
    THEN LET v == parseFloat(value)
             scaledValue == MathAbs(Times(v, this.minScaleFactor))
         IN  IF Truthy(scaledValue) /\ Le(scaledValue, this.minUnitSize)
             THEN IF Lt(MathAbs(v), this.minUnitSize)
                  THEN Str(Concat(v, this.unit.s))
                  ELSE Str(Concat(Times(this.minUnitSize, signOf(v)), this.unit.s))
             ELSE Str(Concat(convertValue(this, v), this.riUnit.s))
    ELSE value

----------------------------------------------------------------------------
(* parseString: the token scan and the per-token conversion.               *)

\* The number of characters from position i on that satisfy [^\s\.!] (tail)
\* or [^\s!] (word) or [!] (bang).
RECURSIVE TailRun(_, _)
TailRun(s, i) ==
    IF i <= Len(s) /\ ~IsSpace(s[i]) /\ s[i] # "." /\ s[i] # "!"
    THEN 1 + TailRun(s, i + 1) ELSE 0

RECURSIVE WordRun(_, _)
WordRun(s, i) ==
    IF i <= Len(s) /\ ~IsSpace(s[i]) /\ s[i] # "!" THEN 1 + WordRun(s, i + 1) ELSE 0

RECURSIVE BangRun(_, _)
BangRun(s, i) == IF i <= Len(s) /\ s[i] = "!" THEN 1 + BangRun(s, i + 1) ELSE 0

\* The length of the match of \d+[\.]?\d+[^\s\.!]* at position i, 0 if none.
\* Greedy with backtracking: the digits, a dot and more digits when there
\* are some; else the first \d+ gives its last digit to the second one,
\* which needs a run of two digits or more.
NumberMatch(s, i) ==
    LET a == DigitRun(s, i)
        dot == i + a <= Len(s) /\ s[i + a] = "."
        b == IF dot THEN DigitRun(s, i + a + 1) ELSE 0
    IN  CASE a = 0 -> 0
          [] b > 0 -> a + 1 + b + TailRun(s, i + a + 1 + b)
          [] a >= 2 -> a + TailRun(s, i + a)
          [] OTHER -> 0

\* The length of the match of [!]*[^\s!]+ at position i, 0 if none.
WordMatch(s, i) ==
    LET e == BangRun(s, i)
        w == WordRun(s, i + e)
    IN  IF w > 0 THEN e + w ELSE 0

\* The length of the match of the whole pattern at position i, 0 if none.
TokenMatch(s, i) == IF NumberMatch(s, i) > 0 THEN NumberMatch(s, i) ELSE WordMatch(s, i)

\* value.match(/\d+[\.]?\d+[^\s\.!]*|[!]*[^\s!]+/g) from position i on: the
\* matches in order (the empty sequence stands for null).
RECURSIVE Matches(_, _)
Matches(s, i) ==
    IF i > Len(s) THEN <<>>
    ELSE LET m == TokenMatch(s, i)
         IN  IF m = 0 THEN Matches(s, i + 1)
             ELSE <<SubSeq(s, i, i + m - 1)>> \o Matches(s, i + m)

\* strs.join(sep)
RECURSIVE Join(_, _)
Join(strs, sep) ==
    IF Len(strs) = 0 THEN <<>>
    ELSE IF Len(strs) = 1 THEN strs[1]
    ELSE strs[1] \o sep \o Join(Tail(strs), sep)

\* str.split(','): always at least one piece.
RECURSIVE Split(_, _)
Split(s, sep) ==
    IF \A i \in 1..Len(s) : s[i] # sep THEN <<s>>
    ELSE LET i == CHOOSE j \in 1..Len(s) : s[j] = sep /\ \A h \in 1..(j - 1) : s[h] # sep
         IN  <<SubSeq(s, 1, i - 1)>> \o Split(SubSeq(s, i + 1, Len(s)), sep)

\* parseString(ruleNode, stringValues): undefined when the scan finds nothing.
parseString(this, ruleNode, stringValues) ==
    LET value == IF Truthy(stringValues) THEN stringValues ELSE ruleNode.value
        tokens == Matches(value.s, 1)
    IN  IF Len(tokens) = 0 THEN Undefined
        ELSE Str(Join([i \in 1..Len(tokens) |->
                            JSToString(parseValueString(this, Str(tokens[i])))], <<" ">>))

----------------------------------------------------------------------------
(* The tree walk.  A tree node is an object with the fields the code reads: *)
(* args, value and unit (undefined when the node has none).  The code       *)
(* rewrites nodes in place; here each function returns the node as the      *)
(* call leaves it.                                                          *)

Node(args, value, unit) == [t |-> "object", args |-> args, value |-> value, unit |-> unit]
Unit(numerator, backupUnit) ==
    [t |-> "object", numerator |-> numerator, backupUnit |-> backupUnit]

\* less.tree.Dimension, Anonymous / Quoted / Keyword, Expression / Value, Call
Dimension(value, unit) == Node(Undefined, value, unit)
Anonymous(s) == Node(Undefined, Str(s), Undefined)
Expression(nodes) == Node(Undefined, Arr(nodes), Undefined)
Call(args) == Node(Arr(args), Undefined, Undefined)

\* A declaration (Less 2.x: rule) node.
Declaration(name, inline, value) ==
    [t |-> "object", name |-> name, inline |-> inline, value |-> value]

csvProps == {<<"background">>, <<"background-size">>, <<"background-position">>}

\* unitNode.numerator[0] = unit
SetNumerator0(unitNode, unit) ==
    [unitNode EXCEPT !.numerator =
        IF Len(@) = 0 THEN <<unit>> ELSE [@ EXCEPT ![1] = unit]]

\* The comma-separated branch of processRuleNode: parsedString after the
\* loop over csvStrings[idx..].
RECURSIVE csvLoop(_, _, _, _, _)
csvLoop(this, ruleNode, csvStrings, idx, parsedString) ==
    IF idx > Len(csvStrings) THEN parsedString
    ELSE csvLoop(this, ruleNode, csvStrings, idx + 1,
                 parsedString \o (IF Len(parsedString) > 0 THEN <<",", " ">> ELSE <<>>)
                     \o Concat(parseString(this, ruleNode, Str(csvStrings[idx])), <<>>))

RECURSIVE processRuleNode(_, _)
RECURSIVE processRuleNodes(_, _)
RECURSIVE updateNode(_, _)

updateNode(this, ruleNode) ==
    IF ~Truthy(ruleNode) THEN ruleNode
    ELSE LET value == IF ruleNode.value.t = "array"
                      THEN Arr(processRuleNodes(this, ruleNode.value.a))
                      ELSE ruleNode.value
             unitNode == ruleNode.unit
         IN  IF Truthy(unitNode)
             THEN LET result == parseValueObject(this, value, unitNode)
                  IN  [ruleNode EXCEPT !.value = result.value,
                                       !.unit = SetNumerator0(unitNode, result.unit)]
             ELSE [ruleNode EXCEPT !.value = parseValueString(this, value)]

processRuleNodes(this, ruleNodes) ==
    [idx \in 1..Len(ruleNodes) |-> processRuleNode(this, ruleNodes[idx])]

processRuleNode(this, ruleNode) ==
    IF ruleNode.t # "object" THEN ruleNode
    ELSE IF ruleNode.args.t = "array"
    THEN [ruleNode EXCEPT !.args =
            Arr([idx \in 1..Len(ruleNode.args.a) |-> updateNode(this, ruleNode.args.a[idx])])]
    ELSE LET isString == ruleNode.value.t = "string"
             csv == this.currentPropName.s \in csvProps /\ isString
             parsedString ==
                IF csv
                THEN Str(csvLoop(this, ruleNode, Split(ruleNode.value.s, ","), 1, <<>>))
                ELSE parseString(this, ruleNode, Undefined)
         IN  IF isString
             THEN IF Truthy(parsedString) THEN [ruleNode EXCEPT !.value = parsedString]
                  ELSE ruleNode
             ELSE updateNode(this, ruleNode)

\* visitDeclaration(node): the plugin and the declaration as the call leaves them.
visitDeclaration(this, decl) ==
    LET ruleNode == IF decl.inline THEN False ELSE decl.value
        that == [this EXCEPT !.currentPropName = decl.name]
    IN  [self |-> that,
         node |-> IF decl.inline THEN decl
                  ELSE [decl EXCEPT !.value = processRuleNode(that, ruleNode)]]

----------------------------------------------------------------------------
(* Inputs.                                                                 *)

PT == <<"p", "t">>
EM == <<"e", "m">>
RPX == <<"r", "p", "x">>

\* An options object: every option present or left out (undefined).
Options(baseSize, riUnit, unit, absoluteUnit, minUnitSize, minSize, precision) ==
    [t |-> "object", baseSize |-> baseSize, riUnit |-> riUnit, unit |-> unit,
     absoluteUnit |-> absoluteUnit, minUnitSize |-> minUnitSize, minSize |-> minSize,
     precision |-> precision]

\* What configure may be called with: no object at all, or an object giving
\* any subset of the seven options.
AllOptions ==
    {Undefined} \cup
    {Options(b, r, u, a, mu, ms, p) :
        b \in {Undefined, Num(10), Num(0)}, r \in {Undefined, Str(EM)},
        u \in {Undefined, Str(PT)}, a \in {Undefined, Str(PX)},
        mu \in {Undefined, Num(2)}, ms \in {Undefined, Num(17)},
        p \in {Undefined, Num(0)}}

\* The numeric options the conversion functions are exercised under.
ValueOptions ==
    {Options(b, Undefined, Undefined, Undefined, mu, ms, p) :
        b \in {Undefined, Num(10), Num(0)}, mu \in {Undefined, Num(2)},
        ms \in {Undefined, Num(17)}, p \in {Undefined, Num(0), Num(2)}}

\* The options the tree walk is exercised under.
PluginOptions ==
    {Undefined,
     Options(Undefined, Undefined, Undefined, Undefined, Undefined, Undefined, Num(0)),
     Options(Num(10), Undefined, Undefined, Undefined, Num(2), Undefined, Undefined)}

\* Magnitudes: m and m/10 for m in -MaxN..MaxN.
Values == {Dec(m, k) : m \in (-MaxN)..MaxN, k \in {0, 1}}

\* Unit descriptors: one symbol, or none with or without a fallback symbol.
UnitNodes ==
    {Unit(<<Str(u)>>, Undefined) : u \in {PX, APX, REM, RPX}}
        \cup {Unit(<<>>, Undefined), Unit(<<>>, Str(PX))}

\* Direct calls of the two conversion functions: the structured form of
\* (value, unit), and the string form of the token value followed by unit.
ValueArgs ==
    {[fn |-> "parseValueObject", value |-> v, unitNode |-> u, token |-> Undefined] :
        v \in Values, u \in UnitNodes}
    \cup
    {[fn |-> "parseValueString", value |-> v, unitNode |-> u,
      token |-> Str(NumberToString(v)
                    \o (IF unitOf(u) = Undefined THEN <<>> ELSE unitOf(u).s))] :
        v \in Values, u \in {w \in UnitNodes : w.backupUnit = Undefined}}

\* Raw strings: every string over Alphabet of up to MaxLen characters.
Alphabet == {"1", ".", "p", "x", "a", " ", ",", "!"}
\* "10px solid red", "12px/14px", "10px 20px, 5px 5px"
Examples ==
    {<<"1", "0", "p", "x", " ", "s", "o", "l", "i", "d", " ", "r", "e", "d">>,
     <<"1", "2", "p", "x", "/", "1", "4", "p", "x">>,
     <<"1", "0", "p", "x", " ", "2", "0", "p", "x", ",", " ", "5", "p", "x", " ", "5", "p", "x">>}
Strings == Examples \cup UNION {[1..len -> Alphabet] : len \in 0..MaxLen}

----------------------------------------------------------------------------
(* The state machine.                                                      *)

NeverGiven == [given |-> [f \in OptionNames |-> Undefined], latest |-> {}]

\* History of configure calls: what each option was last given as, and the
\* options the latest call gave.
Given(prev, opts) ==
    LET now == {f \in OptionNames : opts.t = "object" /\ opts[f] # Undefined}
    IN  [given |-> [f \in OptionNames |-> IF f \in now THEN opts[f] ELSE prev.given[f]],
         latest |-> now]

Idle ==
    /\ node = Undefined /\ orig = Undefined /\ once = Undefined /\ visits = 0
    /\ arg = Undefined /\ ret = Undefined

\* plugin.configure(opts), at set-up time: before the host starts a traversal.
Configure(opts) ==
    /\ node = Undefined /\ arg = Undefined
    /\ self' = configure(self, opts)
    /\ supplied' = Given(supplied, opts)
    /\ UNCHANGED <<node, orig, once, visits, arg, ret>>

\* The host's visitor reaches the next declaration of the document.
Parse(decl) ==
    /\ arg = Undefined
    /\ node = Undefined \/ visits > 0
    /\ node' = decl /\ orig' = decl /\ once' = Undefined /\ visits' = 0
    /\ UNCHANGED <<self, supplied, arg, ret>>

\* plugin.visitDeclaration(node) (Less 2.x: visitRule), start to end.
VisitDeclaration ==
    /\ node # Undefined
    /\ visits < MaxVisits
    /\ LET done == visitDeclaration(self, node)
       IN  /\ self' = done.self
           /\ node' = done.node
           /\ once' = IF visits = 0 THEN done.node ELSE once
    /\ visits' = visits + 1
    /\ UNCHANGED <<supplied, orig, arg, ret>>

\* A direct call of parseValueObject(value, unitNode).
ParseValueObject ==
    /\ arg # Undefined /\ ret = Undefined
    /\ arg.fn = "parseValueObject"
    /\ ret' = parseValueObject(self, arg.value, arg.unitNode)
    /\ UNCHANGED <<self, supplied, node, orig, once, visits, arg>>

\* A direct call of parseValueString(token).
ParseValueString ==
    /\ arg # Undefined /\ ret = Undefined
    /\ arg.fn = "parseValueString"
    /\ ret' = [value |-> parseValueString(self, arg.token)]
    /\ UNCHANGED <<self, supplied, node, orig, once, visits, arg>>

\* A direct call of parseString(ruleNode) on a raw-string node.
ParseString ==
    /\ arg # Undefined /\ ret = Undefined
    /\ arg.fn = "parseString"
    /\ ret' = [value |-> parseString(self, Anonymous(arg.token.s), Undefined)]
    /\ UNCHANGED <<self, supplied, node, orig, once, visits, arg>>

\* new ResolutionIndependencePlugin(opts)
Constructed(opts) ==
    /\ self = construct(opts)
    /\ supplied = Given(NeverGiven, opts)

(* Construction and reconfiguration. *)
InitConfigure == (\E opts \in AllOptions : Constructed(opts)) /\ Idle
NextConfigure == \E opts \in AllOptions : Configure(opts)
SpecConfigure == InitConfigure /\ [][NextConfigure]_vars

(* The conversion functions on single values. *)
InitValue ==
    /\ \E opts \in ValueOptions : Constructed(opts)
    /\ node = Undefined /\ orig = Undefined /\ once = Undefined /\ visits = 0
    /\ arg \in ValueArgs /\ ret = Undefined
NextValue == ParseValueObject \/ ParseValueString
SpecValue == InitValue /\ [][NextValue]_vars

(* Raw strings: the token scan alone, and a declaration holding the string. *)
StringArgs ==
    {[fn |-> "parseString", value |-> Undefined, unitNode |-> Undefined, token |-> Str(s)] :
        s \in Strings}
StringDeclarations ==
    {Declaration(Str(name), FALSE, Anonymous(s)) :
        name \in {<<"background">>, <<"width">>}, s \in Strings}
InitString ==
    /\ Constructed(Undefined)
    /\ once = Undefined /\ visits = 0 /\ ret = Undefined
    /\ \/ arg \in StringArgs /\ node = Undefined /\ orig = Undefined
       \/ arg = Undefined /\ node \in StringDeclarations /\ orig = node
NextString == ParseString \/ VisitDeclaration
SpecString == InitString /\ [][NextString]_vars

(* The tree walk over declarations. *)

\* Scalar-with-unit leaves.
LeafValues == {Num(0), Num(1), Dec(12, 1), Num(24), Num(-2), Dec(5, 1)}
Leaves ==
    {Dimension(v, u) :
        v \in LeafValues,
        u \in {Unit(<<Str(PX)>>, Undefined), Unit(<<Str(APX)>>, Undefined),
               Unit(<<Str(REM)>>, Undefined), Unit(<<>>, Undefined), Unit(<<>>, Str(EM))}}
FewLeaves ==
    {Dimension(Num(24), Unit(<<Str(PX)>>, Undefined)),
     Dimension(Dec(12, 1), Unit(<<Str(PX)>>, Undefined)),
     Dimension(Num(24), Unit(<<Str(APX)>>, Undefined)),
     Dimension(Num(24), Unit(<<Str(REM)>>, Undefined))}

\* Raw-string leaves: "24px", "24px 48px", "4apx red", "red".
RawStrings ==
    {<<"2", "4", "p", "x">>,
     <<"2", "4", "p", "x", " ", "4", "8", "p", "x">>,
     <<"4", "a", "p", "x", " ", "r", "e", "d">>,
     <<"r", "e", "d">>}

\* Value subtrees: a leaf alone, wrapped as Less wraps a parsed value
\* (Value of Expression), as function-call arguments, as a call inside a
\* call, and mixed lists of leaves and calls.
ValueTrees ==
    Leaves
    \cup {Expression(<<Expression(<<d>>)>>) : d \in Leaves}
    \cup {Call(<<d>>) : d \in Leaves}
    \cup {Call(<<Call(<<d>>)>>) : d \in Leaves}
    \cup {Expression(<<d, e>>) : d \in FewLeaves, e \in FewLeaves}
    \cup {Expression(<<Call(<<d, e>>), e>>) : d \in FewLeaves, e \in FewLeaves}
    \cup {Call(<<Expression(<<d, Call(<<e>>)>>)>>) : d \in FewLeaves, e \in FewLeaves}
    \cup {Anonymous(s) : s \in RawStrings}
    \cup {Call(<<Anonymous(s)>>) : s \in RawStrings}
    \cup {Expression(<<Anonymous(s), d>>) : s \in RawStrings, d \in FewLeaves}

Declarations ==
    {Declaration(Str(name), FALSE, v) :
        name \in {<<"width">>, <<"background">>}, v \in ValueTrees}
    \cup {Declaration(Str(<<"width">>), TRUE, v) : v \in FewLeaves}

Init == (\E opts \in PluginOptions : Constructed(opts)) /\ Idle
Next ==
    \/ \E opts \in PluginOptions : Configure(opts)
    \/ \E decl \in Declarations : Parse(decl)
    \/ VisitDeclaration
Spec == Init /\ [][Next]_vars

----------------------------------------------------------------------------
(* Properties.                                                             *)

BaseSizePositive == IsFinite(self.baseSize) /\ self.baseSize.n > 0
ObjectCall == arg # Undefined /\ ret # Undefined /\ arg.fn = "parseValueObject"
StringCall == arg # Undefined /\ ret # Undefined /\ arg.fn = "parseValueString"
SourceUnitCall == ObjectCall /\ unitOf(arg.unitNode) = self.unit

\* The scale-or-clamp rule on fractions, by cross-multiplication: with
\* s = |v * minSize / baseSize|, s # 0 and s <= minUnitSize gives v when
\* |v| < minUnitSize and minUnitSize * sign(v) otherwise, in the source unit;
\* anything else gives v / baseSize rounded to `precision` digits, in riUnit.
ScaleOrClamp(this, v) ==
    LET B == this.baseSize
        M == this.minSize
        U == this.minUnitSize
        p == this.precision.n
        sNotZero == v.n # 0 /\ M.n # 0
        sAtMostU == Abs(v.n) * M.n * B.d * U.d <= U.n * v.d * M.d * B.n
        num == Abs(v.n) * B.d * Pow10(p)
        den == v.d * B.n
        rounded == (2 * num + den) \div (2 * den)
    IN  IF sNotZero /\ sAtMostU
        THEN IF Abs(v.n) * U.d < U.n * v.d
             THEN [value |-> v, unit |-> this.unit]
             ELSE [value |-> Rat(Sgn(v.n) * U.n, U.d), unit |-> this.unit]
        ELSE [value |-> Rat(Sgn(v.n) * rounded, Pow10(p)), unit |-> this.riUnit]

\* C1: with baseSize > 0 and the source unit different from the absolute
\* unit, parseValueObject of a value in the source unit returns exactly the
\* scale-or-clamp result; 0 gives 0 in riUnit.
C1_ScaleOrClamp ==
    (SourceUnitCall /\ BaseSizePositive /\ self.unit # self.absoluteUnit)
        => /\ ret = ScaleOrClamp(self, arg.value)
           /\ IsZero(arg.value) => ret = [value |-> Num(0), unit |-> self.riUnit]

\* C1 witness: a value above the floor was clamped to minUnitSize, sign kept.
C1_Witness ==
    /\ SourceUnitCall /\ BaseSizePositive
    /\ arg.value.n < 0
    /\ ret.unit = self.unit
    /\ ret.value = Times(self.minUnitSize, Num(-1))
    /\ ret.value # arg.value

\* C2: with baseSize > 0, minSize > 0 and precision >= 0, a source-unit value
\* v with |v| >= minUnitSize is never converted below the floor: a result in
\* the source unit has magnitude >= minUnitSize, and a result in riUnit has
\* magnitude * minSize >= minUnitSize.
C2_FloorGuarantee ==
    (/\ SourceUnitCall /\ BaseSizePositive
     /\ self.minSize.n > 0 /\ self.precision.n >= 0
     /\ Le(self.minUnitSize, MathAbs(arg.value)))
        => /\ ret.unit = self.unit => Le(self.minUnitSize, MathAbs(ret.value))
           /\ ret.unit = self.riUnit =>
                Le(self.minUnitSize, Times(MathAbs(ret.value), self.minSize))

\* C3: after any sequence of configure calls, the constructor's included,
\* each parameter is what the most recent call that gave it gave, or its
\* default (24, rem, px, apx, 1, 16, 5), and minScaleFactor is
\* minSize / baseSize of the current parameters.
C3_ParametersAreLatestGiven ==
    LET default == [baseSize |-> Num(24), riUnit |-> Str(<<"r", "e", "m">>),
                    unit |-> Str(<<"p", "x">>), absoluteUnit |-> Str(<<"a", "p", "x">>),
                    minUnitSize |-> Num(1), minSize |-> Num(16), precision |-> Num(5)]
    IN  /\ \A f \in OptionNames :
              self[f] = IF supplied.given[f] = Undefined THEN default[f]
                        ELSE supplied.given[f]
        /\ self.minScaleFactor = Over(self.minSize, self.baseSize)

\* C3 witness: the latest call gave some options and left out one that an
\* earlier call had given, which still holds; minScaleFactor follows a
\* baseSize given earlier and a minSize given by the latest call.
C3_Witness ==
    /\ supplied.latest = {"minSize", "precision"}
    /\ supplied.given["baseSize"] = Num(10)
    /\ self.baseSize = Num(10)
    /\ self.minSize = Num(17)
    /\ self.minScaleFactor = Rat(17, 10)

\* The text of a unit symbol (nothing for no unit).
UnitText(u) == IF u.t = "string" THEN u.s ELSE <<>>

\* C4: for every configuration, number v and unit symbol u, parseValueString
\* of the token v followed by u is the text of the magnitude followed by the
\* unit that parseValueObject returns for (v, u); a unit that is neither the
\* source nor the absolute unit is left unchanged by both.
C4_StringFormAgrees ==
    StringCall =>
        LET structured == parseValueObject(self, arg.value, arg.unitNode)
        IN  ret.value = Str(Concat(structured.value, UnitText(structured.unit)))

\* C9: a configure call (or construction) that leaves baseSize zero, or
\* minScaleFactor non-finite, is reported as an error at configure time, so
\* no conversion ever runs with a non-finite minScaleFactor.
C9_ConversionsSeeFiniteFactor ==
    (arg # Undefined /\ ret # Undefined) => IsFinite(self.minScaleFactor)

\* The white-space-separated tokens of a string.
WsTokens(s) == SelectSeq(Split(s, " "), LAMBDA w : Len(w) > 0)

\* A decimal number: an optional sign, then digits, digits.digits, digits.
\* or .digits, and nothing else.
IsNumberText(w) ==
    LET i1 == IF Len(w) > 0 /\ w[1] \in {"+", "-"} THEN 2 ELSE 1
        a == DigitRun(w, i1)
        dot == i1 + a <= Len(w) /\ w[i1 + a] = "."
        b == IF dot THEN DigitRun(w, i1 + a + 1) ELSE 0
    IN  /\ a > 0 \/ b > 0
        /\ i1 + a + (IF dot THEN 1 + b ELSE 0) = Len(w) + 1

\* A token that is a number followed by the unit symbol u.
IsLengthIn(w, u) ==
    /\ Len(w) > Len(u)
    /\ SubSeq(w, Len(w) - Len(u) + 1, Len(w)) = u
    /\ IsNumberText(SubSeq(w, 1, Len(w) - Len(u)))

\* The conversion of a number-plus-unit token: its own number converted, then
\* the resulting unit.
ConvertedLength(this, w, u) ==
    LET converted == parseValueObject(this, parseFloatStr(SubSeq(w, 1, Len(w) - Len(u))),
                                      Unit(<<Str(u)>>, Undefined))
    IN  Concat(converted.value, converted.unit.s)

\* What string tokenization is to make of one white-space-separated token.
ConvertedToken(this, w) ==
    IF IsLengthIn(w, this.absoluteUnit.s) THEN ConvertedLength(this, w, this.absoluteUnit.s)
    ELSE IF IsLengthIn(w, this.unit.s) THEN ConvertedLength(this, w, this.unit.s)
    ELSE w

\* C5: parseString preserves the tokens of a raw string: as many
\* white-space-separated tokens out as in, in order, joined by single
\* spaces; a token that is not a number followed by the source or absolute
\* unit verbatim, a number-plus-unit token replaced by its own conversion.
\* (When the scan finds nothing the caller keeps the string as it is.)
C5_TokensPreserved ==
    (arg # Undefined /\ ret # Undefined /\ arg.fn = "parseString") =>
        LET in == WsTokens(arg.token.s)
            text == IF ret.value = Undefined THEN arg.token.s ELSE ret.value.s
            out == WsTokens(text)
        IN  /\ Len(out) = Len(in)
            /\ ret.value # Undefined => text = Join(out, <<" ">>)
            /\ \A i \in 1..Len(in) : i <= Len(out) => out[i] = ConvertedToken(self, in[i])

\* String tokenization of one segment alone; a scan that finds no token
\* leaves the segment as it is.
TokenizedAlone(this, segment) ==
    LET tokens == Matches(segment, 1)
    IN  IF Len(tokens) = 0 THEN segment
        ELSE Join([i \in 1..Len(tokens) |->
                        JSToString(parseValueString(this, Str(tokens[i])))], <<" ">>)

\* C6: for a comma-group property with a raw-string value, the converted
\* value has as many comma-separated segments as the input, segment i being
\* the tokenization of input segment i alone (also when that segment is
\* empty or holds no token), joined by comma-space in the original order.
C6_SegmentsConvertedAlone ==
    (/\ node # Undefined /\ visits = 1
     /\ node.name.s \in csvProps /\ orig.value.value.t = "string") =>
        LET segments == Split(orig.value.value.s, ",")
        IN  node.value.value =
                Str(Join([i \in 1..Len(segments) |-> TokenizedAlone(self, segments[i])],
                         <<",", " ">>))

\* A scalar-with-unit node whose effective unit is neither the source unit
\* nor the absolute unit.
IsScalar(n) == n.t = "object" /\ n.unit # Undefined
PassesThrough(this, n) ==
    IsScalar(n) /\ unitOf(n.unit) # this.unit /\ unitOf(n.unit) # this.absoluteUnit

\* Every pass-through scalar of the subtree `before` is identical in `after`.
RECURSIVE Untouched(_, _, _)
Untouched(this, before, after) ==
    \/ before.t # "object"
    \/ /\ PassesThrough(this, before) =>
            after.value = before.value /\ after.unit = before.unit
       /\ before.args.t = "array" =>
            /\ after.args.t = "array"
            /\ \A i \in 1..Len(before.args.a) :
                    Untouched(this, before.args.a[i], after.args.a[i])
       /\ before.value.t = "array" =>
            /\ after.value.t = "array"
            /\ \A i \in 1..Len(before.value.a) :
                    Untouched(this, before.value.a[i], after.value.a[i])

FirstVisitDone == node # Undefined /\ visits = 1 /\ ~orig.inline

\* C7: visitDeclaration leaves a pass-through scalar-with-unit node as it
\* was: its magnitude, and the contents and the length of its unit list.
C7_PassThroughUntouched ==
    FirstVisitDone => Untouched(self, orig.value, node.value)

\* Every length-bearing terminal of the subtree `before` in the source or
\* the absolute unit holds its conversion in `after`: a scalar the result of
\* the structured form, a raw string its tokens converted one by one.
RECURSIVE Handed(_, _, _)
Handed(this, before, after) ==
    \/ before.t # "object"
    \/ /\ (IsScalar(before) /\ ~PassesThrough(this, before)) =>
            LET result == parseValueObject(this, before.value, before.unit)
            IN  /\ after.value = result.value
                /\ after.unit # Undefined /\ unitOf(after.unit) = result.unit
       /\ before.value.t = "string" =>
            after.value = Str(TokenizedAlone(this, before.value.s))
       /\ before.args.t = "array" =>
            /\ after.args.t = "array"
            /\ \A i \in 1..Len(before.args.a) :
                    Handed(this, before.args.a[i], after.args.a[i])
       /\ before.value.t = "array" =>
            /\ after.value.t = "array"
            /\ \A i \in 1..Len(before.value.a) :
                    Handed(this, before.value.a[i], after.value.a[i])

\* C8: after visitDeclaration on a non-inline declaration every
\* length-bearing terminal in the source or absolute unit has been converted,
\* at any depth and in any mix of call arguments and lists, a call that is
\* an argument of a call and a raw-string argument of several tokens included.
C8_TraversalComplete ==
    FirstVisitDone => Handed(self, orig.value, node.value)

DistinctUnits ==
    /\ self.riUnit # self.unit
    /\ self.riUnit # self.absoluteUnit
    /\ self.unit # self.absoluteUnit

RevisitDone == node # Undefined /\ visits >= 2

RECURSIVE Settled(_, _, _, _)
Settled(this, before, first, second) ==
    \/ before.t # "object"
    \/ /\ (IsScalar(before) /\ unitOf(before.unit) # this.absoluteUnit) =>
            second.value = first.value /\ second.unit = first.unit
       /\ before.args.t = "array" =>
            /\ first.args.t = "array" /\ second.args.t = "array"
            /\ \A i \in 1..Len(before.args.a) :
                    Settled(this, before.args.a[i], first.args.a[i], second.args.a[i])
       /\ before.value.t = "array" =>
            /\ first.value.t = "array" /\ second.value.t = "array"
            /\ \A i \in 1..Len(before.value.a) :
                    Settled(this, before.value.a[i], first.value.a[i], second.value.a[i])

====
